---------------------------- MODULE Spec2Model ----------------------------
(***************************************************************************)
(* Model of the WitKaggle dataset builder's join-and-synthesis pipeline    *)
(* (tensorflow_datasets/vision_language/wit_kaggle/wit_kaggle.py,          *)
(* _generate_examples): three readers feed three keyed collections, a      *)
(* CoGroupByKey joins them per image_url, and _process_examples turns each *)
(* grouped element into one example per sample.                            *)
(*                                                                         *)
(* Python values are modelled as follows.  A str that the code only        *)
(* compares, formats or copies is a TLA+ string; a str that the code       *)
(* parses (the base64 image representation, the comma separated embedding) *)
(* is a tuple of one-character strings; bytes are a tuple of 0..255; a     *)
(* dict is a function on its keys; a PCollection is a bag; None is the     *)
(* reserved string `None'.                                                 *)
(***************************************************************************)
EXTENDS Bags, FiniteSets, Integers, Sequences, TLC

(***************************************************************************)
(* Bounds of the model: the number of rows the input files of each kind    *)
(* hold in total.                                                          *)
(***************************************************************************)
MaxSampleRows == 2
MaxPixelRows == 2
MaxResnetRows == 2

(***************************************************************************)
(* Configuration (WitKaggleConfig).                                        *)
(***************************************************************************)
\* resnet_embedding_shape: 2048 by default, scaled down to 2 here; the
\* embedding cells of the modelled files are scaled accordingly.
resnet_embedding_shape == 2

None == "<None>"

CaptionKey == "caption_title_and_reference_description"

\* split_specific_features.keys() of the two BUILDER_CONFIGS.  The train
\* config has 18 text/int/bool fields that the code treats alike; the model
\* keeps three of them, among which the two the code names.
split_specific_features(config) ==
  IF config = "train" THEN {"language", "image_url", CaptionKey}
                    ELSE {"id", "image_url"}

EMPTY_IMAGE_BYTES ==
  << "i", "V", "B", "O", "R", "w", "0", "K", "G", "g", "o", "A", "A", "A", "A", "N",
     "S", "U", "h", "E", "U", "g", "A", "A", "A", "A", "E", "A", "A", "A", "A", "B",
     "C", "A", "Y", "A", "A", "A", "A", "f", "F", "c", "S", "J", "A", "A", "A", "A",
     "D", "U", "l", "E", "Q", "V", "R", "4", "2", "m", "P", "8", "z", "/", "C", "/",
     "H", "g", "A", "G", "g", "w", "J", "/", "l", "K", "3", "Q", "6", "w", "A", "A",
     "A", "A", "B", "J", "R", "U", "5", "E", "r", "k", "J", "g", "g", "g", "=", "=" >>

EMPTY_RESNET_EMBEDDING == [i \in 1..resnet_embedding_shape |-> 0]

(***************************************************************************)
(* Conversions.                                                            *)
(***************************************************************************)
B64Alphabet ==
  << "A", "B", "C", "D", "E", "F", "G", "H", "I", "J", "K", "L", "M", "N", "O", "P",
     "Q", "R", "S", "T", "U", "V", "W", "X", "Y", "Z", "a", "b", "c", "d", "e", "f",
     "g", "h", "i", "j", "k", "l", "m", "n", "o", "p", "q", "r", "s", "t", "u", "v",
     "w", "x", "y", "z", "0", "1", "2", "3", "4", "5", "6", "7", "8", "9", "+", "/" >>

B64Value(c) == (CHOOSE i \in 1..64 : B64Alphabet[i] = c) - 1

\* base64.b64decode on a padded, well-formed representation: each group of
\* four characters carries 24 bits; "=" padding drops the trailing bytes.
RECURSIVE b64decode(_)
b64decode(s) ==
  IF Len(s) < 4 THEN << >>
  ELSE LET pad == IF s[3] = "=" THEN 2 ELSE IF s[4] = "=" THEN 1 ELSE 0
           v(i) == IF s[i] = "=" THEN 0 ELSE B64Value(s[i])
           n == ((v(1) * 64 + v(2)) * 64 + v(3)) * 64 + v(4)
           bytes == << n \div 65536, (n \div 256) % 256, n % 256 >>
       IN  SubSeq(bytes, 1, 3 - pad) \o b64decode(SubSeq(s, 5, Len(s)))

\* base64.b64decode(self.builder_config.EMPTY_IMAGE_BYTES)
EmptyImage == b64decode(EMPTY_IMAGE_BYTES)

\* str.split(","): the maximal comma-free pieces, empty pieces included.
RECURSIVE split(_)
split(s) ==
  IF \A i \in 1..Len(s) : s[i] # ","
    THEN << s >>
    ELSE LET c == CHOOSE i \in 1..Len(s) :
                    s[i] = "," /\ \A j \in 1..(i - 1) : s[j] # ","
         IN  << SubSeq(s, 1, c - 1) >> \o split(SubSeq(s, c + 1, Len(s)))

Digits == << "0", "1", "2", "3", "4", "5", "6", "7", "8", "9" >>

\* float(x) on a non-empty string of decimal digits (the cells the model
\* feeds are of that form; the value is kept as the integer it denotes).
RECURSIVE float(_)
float(x) ==
  IF Len(x) = 0 THEN 0
  ELSE float(SubSeq(x, 1, Len(x) - 1)) * 10
         + ((CHOOSE d \in 1..10 : Digits[d] = x[Len(x)]) - 1)

\* How an f-string renders a key: a str as itself, None as "None".
Str(v) == IF v = None THEN "None" ELSE v

\* Variant of SampleId that leaves the sample index out of the id.
SampleId_KeyOnly(i, sample_url) == Str(sample_url)

\* sample_id = f"{i}_{sample_url}"
SampleId(i, sample_url) == ToString(i) \o "_" \o Str(sample_url)

\* set(xs) of a list
SetOf(xs) == { xs[i] : i \in 1..Len(xs) }


(***************************************************************************)
(* Input rows.  A row is the list of cells csv.reader returns for a line.  *)
(* Every reader draws its next row from the sets below: well-formed rows   *)
(* over two image urls, one of which looks like a sample id, and rows with *)
(* a cell too few or too many.                                             *)
(***************************************************************************)
Rep1 == << "Q", "Q", "=", "=" >>
Rep2 == << "Q", "k", "M", "=" >>
Emb12 == << "1", ",", "2" >>
Emb121 == << "1", ",", "2", ",", "1" >>

\* image_url \t image_pixel \t metadata_url
PixelRows ==
  { << "u", Rep1, "m1" >>, << "u", Rep1, "m2" >>, << "0_u", Rep2, "m1" >>,
    << "u", Rep1 >>, << "u", Rep1, "m1", "x" >> }

\* image_url \t resnet_embedding
ResnetRows ==
  { << "u", Emb12 >>, << "u", Emb121 >>, << "0_u", Emb12 >>,
    << "u" >>, << "u", Emb12, "x" >> }

\* The header line of the sample files of a split.
Header(config) ==
  IF config = "train" THEN << "language", "image_url", CaptionKey >>
                    ELSE << "id", "image_url" >>

SampleRows(config) ==
  IF config = "train"
    THEN { << "en", "u", "cat" >>, << "es", "u", "gato" >>,
           << "en", "0_u", "cat" >>, << "en", "u" >>,
           << "en", "u", "cat", "x" >> }
    ELSE { << "a", "u" >>, << "b", "u" >>, << "a", "0_u" >>, << "a" >>,
           << "a", "u", "x" >> }

(***************************************************************************)
(* State.                                                                  *)
(***************************************************************************)
VARIABLES
  name,               \* builder_config.name: the split being generated
  rows,               \* the rows each kind of reader has consumed (bags)
  sample_collection,  \* PCollection of [image_url, sample]
  pixel_collection,   \* PCollection of [image_url, (representation, metadata_url)]
  resnet_collection,  \* PCollection of [image_url, embedding cell]
  phase,              \* "read", "group" (inputs exhausted) or "failed"
  grouped,            \* image_url -> element CoGroupByKey emitted for it
  pcoll,              \* image_urls whose element awaits _process_examples
  yielded,            \* bag of the (sample_id, sample) pairs yielded
  counters            \* beam.metrics counters, by (namespace, name)

vars == << name, rows, sample_collection, pixel_collection, resnet_collection,
           phase, grouped, pcoll, yielded, counters >>

CounterNames ==
  { << "image_pixels", "multiple" >>, << "image_pixels", "missing" >>,
    << "image_resnet", "multiple" >>, << "image_resnet", "missing" >> }

Init ==
  /\ name \in {"train", "test"}
  /\ rows = [samples |-> EmptyBag, pixels |-> EmptyBag, resnet |-> EmptyBag]
  /\ sample_collection = EmptyBag
  /\ pixel_collection = EmptyBag
  /\ resnet_collection = EmptyBag
  /\ phase = "read"
  /\ grouped = << >>
  /\ pcoll = {}
  /\ yielded = EmptyBag
  /\ counters = [c \in CounterNames |-> 0]

(***************************************************************************)
(* Readers.  Each returns the pairs it yields for one row, or raises.      *)
(***************************************************************************)
Raise == [raised |-> TRUE, pairs |-> {}]
Yield(pair) == [raised |-> FALSE, pairs |-> {pair}]

\* image_url, image_representation, metadata_url = row
read_pixel_rows(row) ==
  IF Len(row) = 3 THEN Yield(<< row[1], << row[2], row[3] >> >>) ELSE Raise

\* image_url, image_representation = row
read_resnet_rows(row) ==
  IF Len(row) = 2 THEN Yield(<< row[1], row[2] >>) ELSE Raise

\* csv.DictReader: cells by column name; a missing cell is None (restval),
\* surplus cells are collected under the key None (restkey).
DictReader(header, row) ==
  LET col(h) == CHOOSE i \in 1..Len(header) : header[i] = h
      named == [h \in SetOf(header) |->
                  IF col(h) <= Len(row) THEN row[col(h)] ELSE None]
  IN  IF Len(row) > Len(header)
        THEN named @@ (None :> SubSeq(row, Len(header) + 1, Len(row)))
        ELSE named

read_samples_rows(config, row) ==
  LET r == DictReader(Header(config), row)
      sample == [feature_key \in split_specific_features(config) |-> r[feature_key]]
  IN  Yield(<< r["image_url"], sample >>)

ReadPixelRow(row) ==
  /\ phase = "read"
  /\ BagCardinality(rows.pixels) < MaxPixelRows
  /\ rows' = [rows EXCEPT !.pixels = @ (+) SetToBag({row})]
  /\ LET out == read_pixel_rows(row)
     IN  /\ pixel_collection' = pixel_collection (+) SetToBag(out.pairs)
         /\ phase' = IF out.raised THEN "failed" ELSE phase
  /\ UNCHANGED << name, sample_collection, resnet_collection, grouped, pcoll,
                  yielded, counters >>

ReadResnetRow(row) ==
  /\ phase = "read"
  /\ BagCardinality(rows.resnet) < MaxResnetRows
  /\ rows' = [rows EXCEPT !.resnet = @ (+) SetToBag({row})]
  /\ LET out == read_resnet_rows(row)
     IN  /\ resnet_collection' = resnet_collection (+) SetToBag(out.pairs)
         /\ phase' = IF out.raised THEN "failed" ELSE phase
  /\ UNCHANGED << name, sample_collection, pixel_collection, grouped, pcoll,
                  yielded, counters >>

ReadSamplesRow(row) ==
  /\ phase = "read"
  /\ BagCardinality(rows.samples) < MaxSampleRows
  /\ rows' = [rows EXCEPT !.samples = @ (+) SetToBag({row})]
  /\ LET out == read_samples_rows(name, row)
     IN  /\ sample_collection' = sample_collection (+) SetToBag(out.pairs)
         /\ phase' = IF out.raised THEN "failed" ELSE phase
  /\ UNCHANGED << name, pixel_collection, resnet_collection, grouped, pcoll,
                  yielded, counters >>

\* Every file has been read to its end without an error: the grouping, which
\* needs all of a key's values, can emit.
EndOfInput ==
  /\ phase = "read"
  /\ phase' = "group"
  /\ UNCHANGED << name, rows, sample_collection, pixel_collection,
                  resnet_collection, grouped, pcoll, yielded, counters >>

(***************************************************************************)
(* beam.CoGroupByKey over {"sample_info", "image_pixels", "image_resnet"}: *)
(* one element per key of any of the three collections, holding for each   *)
(* collection the list of the key's values, in no guaranteed order.        *)
(***************************************************************************)
KeysOf(collection) == { pair[1] : pair \in BagToSet(collection) }

\* The bag of the values a collection holds for a key.
ValuesOf(collection, k) ==
  [v \in { pair[2] : pair \in { q \in BagToSet(collection) : q[1] = k } }
     |-> CopiesIn(<< k, v >>, collection)]

\* The lists that hold exactly the elements of a bag.
Orderings(bag) ==
  { xs \in [1..BagCardinality(bag) -> BagToSet(bag)] :
      \A v \in BagToSet(bag) :
        Cardinality({ i \in 1..BagCardinality(bag) : xs[i] = v }) = CopiesIn(v, bag) }

\* Variant of GroupKeys that joins on the keys of the samples only.
GroupKeys_SamplesOnly == KeysOf(sample_collection)

GroupKeys ==
  KeysOf(sample_collection) \cup KeysOf(pixel_collection)
    \cup KeysOf(resnet_collection)

CoGroupByKey(k) ==
  /\ phase = "group"
  /\ k \in GroupKeys \ DOMAIN grouped
  /\ \E sample_info \in Orderings(ValuesOf(sample_collection, k)),
        image_pixels \in Orderings(ValuesOf(pixel_collection, k)),
        image_resnet \in Orderings(ValuesOf(resnet_collection, k)) :
       grouped' = grouped @@ (k :> [sample_info |-> sample_info,
                                    image_pixels |-> image_pixels,
                                    image_resnet |-> image_resnet])
  /\ pcoll' = pcoll \cup {k}
  /\ UNCHANGED << name, rows, sample_collection, pixel_collection,
                  resnet_collection, phase, yielded, counters >>

(***************************************************************************)
(* _process_examples.                                                      *)
(***************************************************************************)
\* Variant of PixelFields that tests the number of pixel values, not the
\* number of distinct ones.
PixelFields_ByCount(sample_fields) ==
  IF Len(sample_fields.image_pixels) = 1
    THEN ("image" :> b64decode(sample_fields.image_pixels[1][1]))
           @@ ("metadata_url" :> sample_fields.image_pixels[1][2])
    ELSE IF Len(sample_fields.image_pixels) > 1
      THEN ("metadata_url" :> "")
      ELSE ("image" :> EmptyImage) @@ ("metadata_url" :> "")

\* The image and metadata_url fields one iteration sets.  The debugging
\* print of the unique-representation branch changes no state.
PixelFields(sample_fields) ==
  IF Cardinality(SetOf(sample_fields.image_pixels)) = 1
    THEN ("image" :> b64decode(sample_fields.image_pixels[1][1]))
           @@ ("metadata_url" :> sample_fields.image_pixels[1][2])
    ELSE IF Cardinality(SetOf(sample_fields.image_pixels)) > 1
      THEN ("metadata_url" :> "")
      ELSE ("image" :> EmptyImage) @@ ("metadata_url" :> "")

\* The embedding field one iteration sets.
EmbeddingField(sample_fields) ==
  IF Cardinality(SetOf(sample_fields.image_resnet)) = 1
    THEN LET pieces == split(sample_fields.image_resnet[1])
         IN  "embedding" :> [j \in 1..Len(pieces) |-> float(pieces[j])]
    ELSE "embedding" :> EMPTY_RESNET_EMBEDDING

\* The counters one iteration increments.
Incremented(sample_fields) ==
  (IF Cardinality(SetOf(sample_fields.image_pixels)) = 1 THEN {}
   ELSE IF Cardinality(SetOf(sample_fields.image_pixels)) > 1
     THEN { << "image_pixels", "multiple" >> }
     ELSE { << "image_pixels", "missing" >> })
  \cup
  (IF Cardinality(SetOf(sample_fields.image_resnet)) = 1 THEN {}
   ELSE IF Cardinality(SetOf(sample_fields.image_resnet)) > 1
     THEN { << "image_resnet", "multiple" >> }
     ELSE { << "image_resnet", "missing" >> })

\* The sample dict built by one iteration of the loop; later assignments
\* (leftmost here) override earlier ones.
Sample(config, sample_url, sample_info, sample_fields) ==
  EmbeddingField(sample_fields)
    @@ PixelFields(sample_fields)
    @@ (IF CaptionKey \notin DOMAIN sample_info
          THEN (CaptionKey :> "") ELSE << >>)
    @@ [feature_key \in split_specific_features(config)
          |-> sample_info[feature_key]]
    @@ ("image_url" :> sample_url)

\* Variant of process_examples whose enumeration counts from 1.
process_examples_From1(config, sample_url, sample_fields) ==
  [n \in 1..Len(sample_fields.sample_info) |->
     << SampleId(n, sample_url),
        Sample(config, sample_url, sample_fields.sample_info[n], sample_fields) >>]

\* Variant of process_examples that yields the image data of a key that has
\* no sample.
process_examples_Always(config, sample_url, sample_fields) ==
  IF Len(sample_fields.sample_info) = 0
    THEN << << SampleId(0, sample_url),
               EmbeddingField(sample_fields) @@ PixelFields(sample_fields)
                 @@ ("image_url" :> sample_url) >> >>
    ELSE [n \in 1..Len(sample_fields.sample_info) |->
            << SampleId(n - 1, sample_url),
               Sample(config, sample_url, sample_fields.sample_info[n],
                      sample_fields) >>]

\* The (sample_id, sample) pairs yielded for el = (sample_url, sample_fields),
\* in order: enumerate() counts from 0.
process_examples(config, sample_url, sample_fields) ==
  [n \in 1..Len(sample_fields.sample_info) |->
     << SampleId(n - 1, sample_url),
        Sample(config, sample_url, sample_fields.sample_info[n], sample_fields) >>]

\* Variant of CountersAfter that increments once per element, outside the
\* loop.
CountersAfter_OncePerKey(sample_fields) ==
  [c \in CounterNames |->
     IF c \in Incremented(sample_fields) /\ Len(sample_fields.sample_info) > 0
       THEN counters[c] + 1
       ELSE counters[c]]

\* The counters after the loop: one inc() per iteration.
CountersAfter(sample_fields) ==
  [c \in CounterNames |->
     IF c \in Incremented(sample_fields)
       THEN counters[c] + Len(sample_fields.sample_info)
       ELSE counters[c]]

\* The bag of the elements of a list.
BagOf(xs) ==
  [x \in SetOf(xs) |-> Cardinality({ i \in 1..Len(xs) : xs[i] = x })]

ProcessExamples(k) ==
  /\ phase = "group"
  /\ k \in pcoll
  /\ pcoll' = pcoll \ {k}
  /\ yielded' = yielded (+) BagOf(process_examples(name, k, grouped[k]))
  /\ counters' = CountersAfter(grouped[k])
  /\ UNCHANGED << name, rows, sample_collection, pixel_collection,
                  resnet_collection, phase, grouped >>

Next ==
  \/ \E row \in PixelRows : ReadPixelRow(row)
  \/ \E row \in ResnetRows : ReadResnetRow(row)
  \/ \E row \in SampleRows(name) : ReadSamplesRow(row)
  \/ EndOfInput
  \/ \E k \in GroupKeys : CoGroupByKey(k)
  \/ \E k \in pcoll : ProcessExamples(k)

Spec == Init /\ [][Next]_vars

\* The split has been generated: every key grouped and processed.
Done == phase = "group" /\ DOMAIN grouped = GroupKeys /\ pcoll = {}

\* The keys _process_examples has been applied to.
Processed == DOMAIN grouped \ pcoll

TypeOK ==
  /\ name \in {"train", "test"}
  /\ phase \in {"read", "group", "failed"}
  /\ pcoll \subseteq DOMAIN grouped
  /\ \A c \in CounterNames : counters[c] \in Nat

(***************************************************************************)
(* Vocabulary of the properties.  The state of a key is read off the       *)
(* collections the readers produced, the outcome off the yielded pairs     *)
(* (every example carries its key in its image_url field).                 *)
(***************************************************************************)
\* The number of sample entries of a key.
SamplesFor(k) == BagCardinality(ValuesOf(sample_collection, k))

\* The distinct (representation, metadata_url) values of a key.
DistinctPixels(k) == BagToSet(ValuesOf(pixel_collection, k))

\* The distinct embedding cells of a key.
DistinctEmbeddings(k) == BagToSet(ValuesOf(resnet_collection, k))

\* The distinct yielded pairs that belong to a key.
ExamplesOf(out, k) == { pair \in BagToSet(out) : pair[2]["image_url"] = k }

\* How many pairs of a bag of yielded pairs belong to a key.
NumExamplesOf(out, k) ==
  BagCardinality([pair \in ExamplesOf(out, k) |-> CopiesIn(pair, out)])

\* How many pairs of a bag of yielded pairs carry an id.
NumWithId(out, id) ==
  BagCardinality([pair \in { q \in BagToSet(out) : q[1] = id }
                    |-> CopiesIn(pair, out)])

\* The id the documentation gives to sample i of a key: "{i}_{key}".
ExpectedId(i, k) == ToString(i) \o "_" \o (IF k = None THEN "None" ELSE k)

\* The 1x1 PNG the configuration's EMPTY_IMAGE_BYTES encodes.
BlankImage ==
  << 137, 80, 78, 71, 13, 10, 26, 10, 0, 0, 0, 13, 73, 72, 68, 82, 0,
     0, 0, 1, 0, 0, 0, 1, 8, 6, 0, 0, 0, 31, 21, 196, 137, 0,
     0, 0, 13, 73, 68, 65, 84, 120, 218, 99, 252, 207, 240, 191, 30, 0, 6,
     131, 2, 127, 148, 173, 208, 235, 0, 0, 0, 0, 73, 69, 78, 68, 174, 66,
     96, 130 >>

\* The bytes the two representations of the input rows encode ("A" and "BC").
DecodedBytes(representation) ==
  IF representation = Rep1 THEN << 65 >> ELSE << 66, 67 >>

\* Every consumed row has the number of cells its file format gives it.
WellFormedInput ==
  /\ \A row \in BagToSet(rows.pixels) : Len(row) = 3
  /\ \A row \in BagToSet(rows.resnet) : Len(row) = 2
  /\ \A row \in BagToSet(rows.samples) : Len(row) = Len(Header(name))

\* The step processes key k.
Processes(k) == k \in pcoll /\ k \notin pcoll'

(***************************************************************************)
(* Properties.                                                             *)
(***************************************************************************)

\* C1: a processed key with at least one sample and two or more distinct
\* pixel values has, on every one of its examples, an image field holding
\* the blank image and an empty metadata_url, and the "multiple" counter of
\* image_pixels has been incremented.  (Stated for inputs without malformed
\* rows.)
C1_MultiPixelPlaceholder ==
  \A k \in Processed :
    (WellFormedInput /\ SamplesFor(k) >= 1
       /\ Cardinality(DistinctPixels(k)) >= 2)
      => /\ \A pair \in ExamplesOf(yielded, k) :
              /\ "image" \in DOMAIN pair[2]
              /\ pair[2]["image"] = BlankImage
              /\ pair[2]["metadata_url"] = ""
         /\ counters[<< "image_pixels", "multiple" >>] >= 1

\* C2: a processed key with M >= 1 samples has, whatever its pixel and
\* embedding values, exactly M examples, one for each id "{i}_{key}",
\* i = 0..M-1.
C2_FanOut ==
  \A k \in Processed :
    SamplesFor(k) >= 1
      => /\ NumExamplesOf(yielded, k) = SamplesFor(k)
         /\ \A i \in 0..(SamplesFor(k) - 1) :
              Cardinality({ pair \in ExamplesOf(yielded, k) :
                              pair[1] = ExpectedId(i, k) }) = 1

C2_Witness ==
  \E k \in Processed :
    /\ SamplesFor(k) >= 2
    /\ Cardinality(DistinctPixels(k)) >= 2
    /\ DistinctEmbeddings(k) = {}

\* C3: once the split is generated, the example of every id is the one a
\* reference run over the same collections yields, whatever order the
\* values of a key were grouped in.  (The reference run takes, for every
\* key, one fixed ordering of the key's values; stated for inputs without
\* malformed rows.)
ReferenceFields(k) ==
  [sample_info |-> CHOOSE xs \in Orderings(ValuesOf(sample_collection, k)) : TRUE,
   image_pixels |-> CHOOSE xs \in Orderings(ValuesOf(pixel_collection, k)) : TRUE,
   image_resnet |-> CHOOSE xs \in Orderings(ValuesOf(resnet_collection, k)) : TRUE]

C3_OrderIndependent ==
  (Done /\ WellFormedInput) =>
    \A k \in GroupKeys :
      \A pair \in SetOf(process_examples(name, k, ReferenceFields(k))) :
        BagIn(pair, yielded)

\* C4 (as claimed): the step that processes a key with M >= 1 samples and no
\* pixel value yields only examples with the blank image and an empty
\* metadata_url, adds exactly 1 to the "missing" counter of image_pixels and
\* leaves its "multiple" counter alone.  (Stated for inputs without
\* malformed rows.)
C4_MissingOncePerKey ==
  [][\A k \in pcoll :
       (Processes(k) /\ WellFormedInput /\ SamplesFor(k) >= 1
          /\ DistinctPixels(k) = {})
         => /\ \A pair \in ExamplesOf(yielded', k) :
                 /\ "image" \in DOMAIN pair[2]
                 /\ pair[2]["image"] = BlankImage
                 /\ pair[2]["metadata_url"] = ""
            /\ counters'[<< "image_pixels", "missing" >>]
                 = counters[<< "image_pixels", "missing" >>] + 1
            /\ counters'[<< "image_pixels", "multiple" >>]
                 = counters[<< "image_pixels", "multiple" >>]]_vars

\* C4 (amended): the same step adds M, one per example, to the "missing"
\* counter of image_pixels; the rest as claimed.
C4_MissingOncePerExample ==
  [][\A k \in pcoll :
       (Processes(k) /\ SamplesFor(k) >= 1 /\ DistinctPixels(k) = {})
         => /\ \A pair \in ExamplesOf(yielded', k) :
                 /\ "image" \in DOMAIN pair[2]
                 /\ pair[2]["image"] = BlankImage
                 /\ pair[2]["metadata_url"] = ""
            /\ NumExamplesOf(yielded', k) = SamplesFor(k)
            /\ counters'[<< "image_pixels", "missing" >>]
                 = counters[<< "image_pixels", "missing" >>] + SamplesFor(k)
            /\ counters'[<< "image_pixels", "multiple" >>]
                 = counters[<< "image_pixels", "multiple" >>]]_vars

C4_Witness ==
  \E k \in Processed :
    /\ SamplesFor(k) >= 2
    /\ DistinctPixels(k) = {}
    /\ counters[<< "image_pixels", "missing" >>] >= 2

\* C5: every yielded example carries an embedding of exactly
\* resnet_embedding_shape components.  (Stated for inputs without malformed
\* rows.)
C5_EmbeddingLength ==
  WellFormedInput =>
    \A pair \in BagToSet(yielded) :
      Len(pair[2]["embedding"]) = resnet_embedding_shape

\* C6: a consumed row that has not the number of cells its reader expects
\* (3 for pixel rows, 2 for embedding rows, the header's for sample rows)
\* has failed the split.
C6_MalformedRowsFatal ==
  (\/ \E row \in BagToSet(rows.pixels) : Len(row) # 3
   \/ \E row \in BagToSet(rows.resnet) : Len(row) # 2
   \/ \E row \in BagToSet(rows.samples) : Len(row) # Len(Header(name)))
    => phase = "failed"

\* C7: the step that processes a key with at least one sample and exactly
\* one distinct pixel value, however often repeated, yields only examples
\* with the decoded bytes of that representation and that metadata_url, and
\* changes neither counter of image_pixels.
C7_UniquePixel ==
  [][\A k \in pcoll :
       (Processes(k) /\ SamplesFor(k) >= 1
          /\ Cardinality(DistinctPixels(k)) = 1)
         => LET pixel == CHOOSE v \in DistinctPixels(k) : TRUE
            IN  /\ NumExamplesOf(yielded', k) = SamplesFor(k)
                /\ \A pair \in ExamplesOf(yielded', k) :
                     /\ "image" \in DOMAIN pair[2]
                     /\ pair[2]["image"] = DecodedBytes(pixel[1])
                     /\ pair[2]["metadata_url"] = pixel[2]
                /\ counters'[<< "image_pixels", "missing" >>]
                     = counters[<< "image_pixels", "missing" >>]
                /\ counters'[<< "image_pixels", "multiple" >>]
                     = counters[<< "image_pixels", "multiple" >>]]_vars

C7_Witness ==
  \E k \in Processed :
    /\ SamplesFor(k) >= 1
    /\ Cardinality(DistinctPixels(k)) = 1
    /\ BagCardinality(ValuesOf(pixel_collection, k)) >= 2
    /\ \E pair \in ExamplesOf(yielded, k) : pair[2]["image"] = << 65 >>

\* C8: the step that processes a key without samples yields nothing and
\* does not fail, whatever pixel and embedding values the key has; no
\* yielded example ever belongs to such a key.
C8_NoSampleDrop ==
  [][\A k \in pcoll :
       (Processes(k) /\ SamplesFor(k) = 0)
         => /\ yielded' = yielded
            /\ ExamplesOf(yielded', k) = {}
            /\ phase' = "group"]_vars

C8_Witness ==
  \E k \in Processed :
    /\ SamplesFor(k) = 0
    /\ DistinctPixels(k) # {}
    /\ ExamplesOf(yielded, k) = {}

\* C9: when every key is a string, no two yielded examples have the same
\* id, and every key has as many examples as samples (it is processed
\* once).
C9_UniqueIds ==
  None \notin GroupKeys
    => /\ \A pair \in BagToSet(yielded) : NumWithId(yielded, pair[1]) = 1
       /\ \A k \in Processed : NumExamplesOf(yielded, k) = SamplesFor(k)

C9_Witness ==
  /\ Done
  /\ None \notin GroupKeys
  /\ SamplesFor("u") = 1
  /\ SamplesFor("0_u") = 1
  /\ NumWithId(yielded, "0_u") = 1
  /\ NumWithId(yielded, "0_0_u") = 1

\* C10: once the inputs are consumed and the grouping has emitted, there is
\* an element for exactly the keys of the rows of the three kinds of file,
\* and an element's list for a collection the key is absent from is empty.
\* (image_url is the second column of the sample files.)
InputKeys ==
  { row[1] : row \in BagToSet(rows.pixels) }
    \cup { row[1] : row \in BagToSet(rows.resnet) }
    \cup { IF Len(row) >= 2 THEN row[2] ELSE None :
             row \in BagToSet(rows.samples) }

C10_OuterJoin ==
  /\ phase # "group" => DOMAIN grouped = {}
  /\ (phase = "group" /\ DOMAIN grouped = GroupKeys)
       => /\ DOMAIN grouped = InputKeys
          /\ \A k \in DOMAIN grouped :
               /\ Len(grouped[k].sample_info)
                    = BagCardinality(
                        [row \in { r \in BagToSet(rows.samples) :
                                     (IF Len(r) >= 2 THEN r[2] ELSE None) = k }
                           |-> CopiesIn(row, rows.samples)])
               /\ Len(grouped[k].image_pixels)
                    = BagCardinality(
                        [row \in { r \in BagToSet(rows.pixels) : r[1] = k }
                           |-> CopiesIn(row, rows.pixels)])
               /\ Len(grouped[k].image_resnet)
                    = BagCardinality(
                        [row \in { r \in BagToSet(rows.resnet) : r[1] = k }
                           |-> CopiesIn(row, rows.resnet)])

C10_Witness ==
  /\ Done
  /\ \E k \in DOMAIN grouped :
       /\ Len(grouped[k].sample_info) = 0
       /\ Len(grouped[k].image_pixels) > 0
       /\ Len(grouped[k].image_resnet) = 0
  /\ \E k \in DOMAIN grouped :
       /\ Len(grouped[k].sample_info) > 0
       /\ Len(grouped[k].image_pixels) = 0

=============================================================================
